---- MODULE Spec2Model ----
(***************************************************************************)
(* Model of the caching layer of @ghom/orm: the ResponseCache (Cached      *)
(* Query) class, the per-table cache facade (Table.cache) and the ORM-wide *)
(* invalidation (ORM.cache), on top of an abstract database whose queries  *)
(* are asynchronous: a query issued by a call executes in a later step.    *)
(***************************************************************************)
EXTENDS Integers, Sequences, FiniteSets, TLC

\* ---------------------------------------------------------------- bounds
MaxTime == 2        \* the clock (Date.now()) runs over 0..MaxTime
MaxPromises == 2    \* promise objects reachable at one time
MaxWrites == 1      \* write queries issued in one behaviour
FiniteTTL == 1      \* the finite "caching" option tried besides Infinity

\* ------------------------------------------------------------- constants
Infinity == 999     \* the default cache time; larger than every clock value

Tables == {"a", "b"}
TableOrder == <<"a", "b">>          \* iteration order of handler.elements
Priority == [a |-> 0, b |-> 1]      \* options.priority of each table

Undefined == "<undefined>"          \* an omitted optional argument
Ids == {"", "k"}                    \* ids given to table.cache.get
Wheres == {Undefined}               \* filters given to table.cache.count
Sqls == {"s1"}                      \* raw SQL strings
RawSqls == {"s1", "s2"}             \* raw SQL strings of the raw-cache specification
\* a read callback returns a query, returns a query that the database will
\* reject, or throws
Callbacks == {"query", "reject", "throw"}
TTLs == {FiniteTTL, Infinity}

WhereCache(t) == <<"where", t>>
CountCache(t) == <<"count", t>>
RawCache == <<"raw", "orm">>
CacheIds == {WhereCache(t) : t \in Tables} \cup {CountCache(t) : t \in Tables} \cup {RawCache}

VARIABLES
  now,        \* Date.now()
  timeout,    \* the caching option (config.caching ?? Infinity)
  phase,      \* "new" (constructed), "making" (init running), "ready"
  made,       \* tables whose make() has created the caches
  cache,      \* cache[c]: the _cache Map of ResponseCache instance c
  promises,   \* the promises returned by producers that are still reachable
  writes,     \* write queries issued and not yet executed
  db,         \* number of writes the database has committed
  lastSetVer, \* lastSetVer[t]: db right after the last committed cache.set write on t
  lastOp,     \* the latest call made on the ORM, with what it observed
  mig,        \* one table's migrations: declaration, migrate pass, migration record
  boot        \* the table files of the ORM and the init that makes them

vars == <<now, timeout, phase, made, cache, promises, writes, db, lastSetVer, lastOp, mig, boot>>

EmptyMap == [k \in {} |-> 0]

\* ------------------------------------------------- ResponseCache (pure part)
\* mutant of Plus: Infinity is taken as no time at all
PlusNothing(t, ttl) == IF ttl = Infinity THEN t ELSE t + ttl

\* Date.now() + this._timeout
Plus(t, ttl) == IF ttl = Infinity THEN Infinity ELSE t + ttl

\* mutants of Miss: an entry that never expires, and a cache that never hits
MissNever(m, id, t) == id \notin DOMAIN m
MissAlways(m, id, t) == TRUE

\* !cached || cached.expires < Date.now()
Miss(m, id, t) == id \notin DOMAIN m \/ m[id].expires < t

\* this._cache.set(id, { value, expires: Date.now() + this._timeout })
Store(m, id, v, t, ttl) ==
  [k \in DOMAIN m \cup {id} |-> IF k = id THEN [value |-> v, expires |-> Plus(t, ttl)] ELSE m[k]]

\* !id in JavaScript: true of undefined and of the empty string
Falsy(id) == id = Undefined \/ id = ""

\* mutant of InvalidateMap: invalidate() without a key clears nothing
InvalidateMapKeep(m, id) ==
  IF Falsy(id) THEN m ELSE [k \in DOMAIN m \ {id} |-> m[k]]

\* invalidate(id?): clear() when !id, delete(id) otherwise
InvalidateMap(m, id) ==
  IF Falsy(id) THEN EmptyMap ELSE [k \in DOMAIN m \ {id} |-> m[k]]

\* ------------------------------------------------------ invalidation fan-out
\* mutant of TableInvalidate: the caches of every table are cleared
TableInvalidateEvery(ch, t) == [c \in CacheIds |-> InvalidateMap(ch[c], Undefined)]

\* table.cache.invalidate(): both caches of the table and the raw cache
TableInvalidate(ch, t) ==
  [ch EXCEPT ![WhereCache(t)] = InvalidateMap(@, Undefined),
             ![CountCache(t)] = InvalidateMap(@, Undefined),
             ![RawCache] = InvalidateMap(@, Undefined)]

\* ORM.cachedTables: empty until handler.init() has loaded the table files
CachedTables == IF phase = "new" THEN <<>> ELSE TableOrder

\* index of the first cached table whose cache getter throws "missing cache"
FirstUnmade ==
  IF \E i \in 1..Len(CachedTables) : CachedTables[i] \notin made
  THEN CHOOSE i \in 1..Len(CachedTables) :
         /\ CachedTables[i] \notin made
         /\ \A j \in 1..(i - 1) : CachedTables[j] \in made
  ELSE 0

RECURSIVE InvalidateTables(_, _)
\* cachedTables.forEach((table) => table.cache.invalidate()) over a list
InvalidateTables(ch, ts) ==
  IF ts = <<>> THEN ch ELSE InvalidateTables(TableInvalidate(ch, Head(ts)), Tail(ts))

\* mutant of OrmInvalidate: only the raw cache is cleared
OrmInvalidateRawOnly(ch) ==
  [cache |-> [ch EXCEPT ![RawCache] = InvalidateMap(@, Undefined)], threw |-> FirstUnmade # 0]

\* orm.cache.invalidate(): the raw cache, then each cached table in order;
\* the forEach stops at the first table that has no caches yet
OrmInvalidate(ch) ==
  LET stop == FirstUnmade
      upto == IF stop = 0 THEN Len(CachedTables) ELSE stop - 1
  IN [cache |-> InvalidateTables([ch EXCEPT ![RawCache] = InvalidateMap(@, Undefined)],
                                 SubSeq(CachedTables, 1, upto)),
      threw |-> stop # 0]

\* ------------------------------------------------------------- producers
\* a promise: its state, the database version it resolved to, and the
\* argument the producer that returned it was called with
Free == [state |-> "free", val |-> 0, arg |-> ""]
Pending == [state |-> "pending", val |-> 0, arg |-> ""]
Failing == [state |-> "failing", val |-> 0, arg |-> ""]     \* pending, and going to be rejected
Threw == [state |-> "threw", val |-> 0, arg |-> ""]
Rejected == [state |-> "rejected", val |-> 0, arg |-> ""]

HasFree == \E i \in 1..MaxPromises : promises[i].state = "free"
Alloc == CHOOSE i \in 1..MaxPromises :
           promises[i].state = "free" /\ \A j \in 1..(i - 1) : promises[j].state # "free"

\* a promise stays in the model while a cache entry or the latest caller holds it
Reachable(i, ch, op) == op.ret = i \/ \E c \in CacheIds : \E k \in DOMAIN ch[c] : ch[c][k].value = i
Collect(ps, ch, op) == [i \in 1..MaxPromises |-> IF Reachable(i, ch, op) THEN ps[i] ELSE Free]

\* this._request(...params) of cache c: what it returns and what it does to
\* the caches on the way
Request(ch, c, arg) ==
  IF c[1] = "where"
  THEN [cache |-> ch,
        p |-> [(IF arg = "throw" THEN Threw ELSE IF arg = "reject" THEN Failing ELSE Pending)
                 EXCEPT !.arg = arg]]
  ELSE IF c[1] = "count"
  THEN [cache |-> ch, p |-> [Pending EXCEPT !.arg = arg]]
  ELSE LET inv == IF phase = "ready" THEN OrmInvalidate(ch) ELSE [cache |-> ch, threw |-> FALSE]
       IN [cache |-> inv.cache,
           p |-> [(IF inv.threw THEN Rejected ELSE Pending) EXCEPT !.arg = arg]]

\* mutant of Get: the producer is invoked on a hit as well
GetRequestsOnHit(ch, c, id, arg) ==
  IF Miss(ch[c], id, now)
  THEN LET r == Request(ch, c, arg)
           pid == Alloc
       IN IF r.p.state = "threw"
          THEN [cache |-> r.cache, promises |-> promises, ret |-> 0, threw |-> TRUE, calls |-> 1]
          ELSE [cache |-> [r.cache EXCEPT ![c] = Store(@, id, pid, now, timeout)],
                promises |-> [promises EXCEPT ![pid] = r.p], ret |-> pid, threw |-> FALSE,
                calls |-> 1]
  ELSE [cache |-> ch, promises |-> promises, ret |-> ch[c][id].value, threw |-> FALSE, calls |-> 1]

\* mutant of Get: an entry stored by another producer argument is passed over
GetByProducer(ch, c, id, arg) ==
  IF Miss(ch[c], id, now)
  THEN LET r == Request(ch, c, arg)
           pid == Alloc
       IN IF r.p.state = "threw"
          THEN [cache |-> r.cache, promises |-> promises, ret |-> 0, threw |-> TRUE, calls |-> 1]
          ELSE [cache |-> [r.cache EXCEPT ![c] = Store(@, id, pid, now, timeout)],
                promises |-> [promises EXCEPT ![pid] = r.p], ret |-> pid, threw |-> FALSE,
                calls |-> 1]
  ELSE IF promises[ch[c][id].value].arg # arg
  THEN [cache |-> ch, promises |-> promises, ret |-> 0, threw |-> arg = "throw", calls |-> 1]
  ELSE [cache |-> ch, promises |-> promises, ret |-> ch[c][id].value, threw |-> FALSE, calls |-> 0]

\* ResponseCache.get(id, ...params)
Get(ch, c, id, arg) ==
  IF Miss(ch[c], id, now)
  THEN LET r == Request(ch, c, arg)
           pid == Alloc
       IN IF r.p.state = "threw"
          THEN [cache |-> r.cache, promises |-> promises, ret |-> 0, threw |-> TRUE, calls |-> 1]
          ELSE [cache |-> [r.cache EXCEPT ![c] = Store(@, id, pid, now, timeout)],
                promises |-> [promises EXCEPT ![pid] = r.p], ret |-> pid, threw |-> FALSE,
                calls |-> 1]
  ELSE [cache |-> ch, promises |-> promises, ret |-> ch[c][id].value, threw |-> FALSE, calls |-> 0]

\* the first free promise slot of ps
AllocIn(ps) == CHOOSE i \in 1..MaxPromises :
                 ps[i].state = "free" /\ \A j \in 1..(i - 1) : ps[j].state # "free"

\* mutant of Fetch: the producer is only invoked when get would invoke it
FetchIfMiss(ch, ps, c, id, arg) ==
  IF Miss(ch[c], id, now)
  THEN LET r == Request(ch, c, arg)
           pid == AllocIn(ps)
       IN IF r.p.state = "threw"
          THEN [cache |-> r.cache, promises |-> ps, ret |-> 0, threw |-> TRUE, calls |-> 1]
          ELSE [cache |-> [r.cache EXCEPT ![c] = Store(@, id, pid, now, timeout)],
                promises |-> [ps EXCEPT ![pid] = r.p], ret |-> pid, threw |-> FALSE,
                calls |-> 1]
  ELSE [cache |-> ch, promises |-> ps, ret |-> ch[c][id].value, threw |-> FALSE, calls |-> 0]

\* ResponseCache.fetch(id, ...params); ps: the promises still held once the
\* entry of id is overwritten
Fetch(ch, ps, c, id, arg) ==
  LET r == Request(ch, c, arg)
      pid == AllocIn(ps)
  IN IF r.p.state = "threw"
     THEN [cache |-> r.cache, promises |-> ps, ret |-> 0, threw |-> TRUE, calls |-> 1]
     ELSE [cache |-> [r.cache EXCEPT ![c] = Store(@, id, pid, now, timeout)],
           promises |-> [ps EXCEPT ![pid] = r.p], ret |-> pid, threw |-> FALSE,
           calls |-> 1]

\* ------------------------------------------------------------ call records
\* what the caller of the latest call observed:
\*   ret    the promise the call returned (0: none)
\*   threw  the call threw
\*   calls  how often the call invoked the producer (or the write callback)
\*   pre    the promise stored under the key before the call (0: no entry)
\*   age    the call's time against the expiry of that entry
\*   stale  that entry's promise was fulfilled from an older database state
\*   dbAt, setVerAt   db and lastSetVer[t] when the call was made
\*   had    the caches that held entries before the call
\*   ready  the ORM was initialised when the call was made
\*   atInvoke  the caches that held entries when the write callback was invoked
\*   wrote  the write query the write callback issued
\*   outcome  how the promise of that write query settled ("": not yet)
\*   afterFail  the call before this one was a cache.set whose write failed
NoOp == [op |-> "none", c |-> <<>>, t |-> "", k |-> "", ret |-> 0, threw |-> FALSE,
         calls |-> 0, pre |-> 0, age |-> "", stale |-> FALSE, dbAt |-> 0, setVerAt |-> 0,
         had |-> {}, ready |-> FALSE, atInvoke |-> {}, wrote |-> <<>>,
         outcome |-> "", afterFail |-> FALSE, arg |-> ""]

\* the latest call was a cache.set and the write it returned has been rejected
SetFailed == lastOp.op = "set" /\ lastOp.outcome = "failed"

NonEmpty(ch) == {c \in CacheIds : ch[c] # EmptyMap}

Age(m, id, t) ==
  IF id \notin DOMAIN m THEN "absent"
  ELSE IF t < m[id].expires THEN "live"
  ELSE IF t = m[id].expires THEN "edge" ELSE "expired"

Stale(m, id) ==
  /\ id \in DOMAIN m
  /\ promises[m[id].value].state = "fulfilled"
  /\ promises[m[id].value].val < db

\* a read through cache c with key k; ch: the caches when the key is looked up
ReadOp(name, ch, c, t, k, r) ==
  [NoOp EXCEPT !.op = name, !.c = c, !.t = t, !.k = k, !.ret = r.ret,
               !.threw = r.threw, !.calls = r.calls,
               !.pre = IF k \in DOMAIN ch[c] THEN ch[c][k].value ELSE 0,
               !.age = Age(ch[c], k, now), !.stale = Stale(ch[c], k),
               !.dbAt = db, !.setVerAt = IF t = "" THEN 0 ELSE lastSetVer[t],
               !.afterFail = SetFailed]

\* a call that invalidates
ClearOp(name, c, t, k, threw) ==
  [NoOp EXCEPT !.op = name, !.c = c, !.t = t, !.k = k, !.threw = threw,
               !.had = NonEmpty(cache), !.ready = (phase = "ready"), !.dbAt = db]

CanCall(ch, c, id) == Miss(ch[c], id, now) => HasFree

\* ------------------------------------------------- state of ORM.init
MigrationTable == "migration"
BootTables == Tables \cup {MigrationTable}

\* boot: the table files of an ORM and the init that makes them
\*   prio     options.priority of each table file
\*   loaded   the table files in the order handler.init() loaded them
\*   hasMig   the table files that declare migrations
\*   exists   the tables the database holds
\*   rows     the tables of the database that hold a row
\*   pc       "idle", "loop" (between two makes), "create", "migrate",
\*            "count", "then" (inside the make of order[idx]), "failed"
\*   order    sortedTables; idx the position of the loop in it
\*   log      the steps begun and ended by the running init, in order
\*   thens    thens[t]: calls of the then callback of t by the running init
\*   inits    the init calls started
\*   connected  the ORM was built with a configuration, not with false
\*   attached   the tables whose make has set their orm
\*   backup   the backup files: whether there are any, and the tables of
\*            which they hold a row
NoBoot == [prio |-> EmptyMap, loaded |-> <<>>, hasMig |-> {},
           exists |-> {}, rows |-> {}, pc |-> "idle", order |-> <<>>, idx |-> 0,
           log |-> <<>>, thens |-> [t \in BootTables |-> 0], inits |-> 0,
           connected |-> TRUE, attached |-> {}, backup |-> [made |-> FALSE, rows |-> {}]]

\* ------------------------------------------------------- migration keys
\* A key is the sequence of its characters.
DigitChars == {"0", "1", "2"}
LetterChars == {"a", "b", "B"}
IsDigit(c) == c \in DigitChars
DigitVal(c) == IF c = "0" THEN 0 ELSE IF c = "1" THEN 1 ELSE 2

\* the keys that tables of the model declare
KeyPool ==
  { <<"1">>, <<"2">>, <<"1", "0">>, <<"0", "1">>,
    <<"0", "1", "_", "a">>, <<"0", "1", "_", "b">>, <<"2", "_", "a">>, <<"1", ".", "a">>,
    <<"a">>, <<"b">>, <<"B">>, <<"a", "b">> }

\* /^\d+$/.test(k)
PureNumeric(k) == Len(k) > 0 /\ \A i \in 1..Len(k) : IsDigit(k[i])

\* /^\d+/.test(k), /^\d/.test(k)
DigitLed(k) == Len(k) > 0 /\ IsDigit(k[1])

\* length of the leading digit run: k.match(/^(\d+)/)?.[1]
DigitRun(k) ==
  IF \E n \in 1..Len(k) : ~IsDigit(k[n])
  THEN (CHOOSE n \in 1..Len(k) : ~IsDigit(k[n]) /\ \A i \in 1..(n - 1) : IsDigit(k[i])) - 1
  ELSE Len(k)

\* /^\d+[_\-a-zA-Z]/.test(k)
PrefixedShape(k) ==
  /\ DigitLed(k)
  /\ DigitRun(k) < Len(k)
  /\ k[DigitRun(k) + 1] \in LetterChars \cup {"_", "-"}

RECURSIVE DecimalValue(_)
\* Number(k) of a digit string, parseInt(k, 10)
DecimalValue(ds) ==
  IF ds = <<>> THEN 0 ELSE 10 * DecimalValue(SubSeq(ds, 1, Len(ds) - 1)) + DigitVal(ds[Len(ds)])

\* parseInt(key.match(/^(\d+)/)?.[1] ?? "0", 10)
NumericPrefix(k) == DecimalValue(SubSeq(k, 1, DigitRun(k)))

\* String.prototype.localeCompare under the default collation: punctuation
\* before digits before letters, letters compared without case first and a
\* lower-case letter before its upper-case letter on a tie
Primary(c) ==
  IF c = "_" THEN 1 ELSE IF c = "-" THEN 2 ELSE IF c = "." THEN 3
  ELSE IF IsDigit(c) THEN 10 + DigitVal(c)
  ELSE IF c = "a" THEN 20 ELSE 21

Upper(c) == IF c = "B" THEN 1 ELSE 0

RECURSIVE CompareBy(_, _, _)
\* first difference of two keys under weight w ("primary" or "case")
CompareBy(w, a, b) ==
  IF a = <<>> /\ b = <<>> THEN 0
  ELSE IF a = <<>> THEN -1
  ELSE IF b = <<>> THEN 1
  ELSE LET x == IF w = "primary" THEN Primary(Head(a)) ELSE Upper(Head(a))
           y == IF w = "primary" THEN Primary(Head(b)) ELSE Upper(Head(b))
       IN IF x < y THEN -1 ELSE IF x > y THEN 1 ELSE CompareBy(w, Tail(a), Tail(b))

LocaleCompare(a, b) ==
  IF CompareBy("primary", a, b) # 0 THEN CompareBy("primary", a, b) ELSE CompareBy("case", a, b)

\* an integer-like property name (canonical array index)
IntegerLike(k) == PureNumeric(k) /\ (Len(k) = 1 \/ k[1] # "0")

RECURSIVE Filter(_, _)
\* the keys of s that are in set S, in the order of s
Filter(s, S) ==
  IF s = <<>> THEN <<>>
  ELSE IF Head(s) \in S THEN <<Head(s)>> \o Filter(Tail(s), S) ELSE Filter(Tail(s), S)

Elems(s) == {s[i] : i \in 1..Len(s)}

\* mutant of CompareNumeric: the keys are compared as text
CompareNumericAsText(a, b) == LocaleCompare(a, b)

\* (a, b) => Number(a) - Number(b)
CompareNumeric(a, b) == DecimalValue(a) - DecimalValue(b)

\* mutant of ComparePrefix: the keys are compared as text
ComparePrefixAsText(a, b) == LocaleCompare(a, b)

\* (a, b) => getNumericPrefix(a) - getNumericPrefix(b)
ComparePrefix(a, b) == NumericPrefix(a) - NumericPrefix(b)

Compare(mode, a, b) ==
  IF mode = "numeric" THEN CompareNumeric(a, b)
  ELSE IF mode = "prefix" THEN ComparePrefix(a, b)
  ELSE LocaleCompare(a, b)

RECURSIVE Insert(_, _, _)
Insert(mode, x, s) ==
  IF s = <<>> THEN <<x>>
  ELSE IF Compare(mode, x, s[Len(s)]) >= 0 THEN s \o <<x>>
  ELSE Insert(mode, x, SubSeq(s, 1, Len(s) - 1)) \o <<s[Len(s)]>>

RECURSIVE Sort(_, _)
\* Array.prototype.sort with a comparator: a stable sort
Sort(mode, s) ==
  IF s = <<>> THEN <<>> ELSE Insert(mode, s[Len(s)], Sort(mode, SubSeq(s, 1, Len(s) - 1)))

\* Object.keys of the migrations object declared with the keys of decl in
\* this order: integer-like keys first, ascending, then the other keys in
\* the order of their declaration
ObjectKeys(decl) ==
  Sort("numeric", Filter(decl, {k \in Elems(decl) : IntegerLike(k)}))
    \o Filter(decl, {k \in Elems(decl) : ~IntegerLike(k)})

\* mutant of StringOrder: string keys are always sorted
StringOrderSorted(keys, alphabeticalOrder) == Sort("alpha", keys)

\* pure string keys: keys.sort(localeCompare) or the keys as they are
StringOrder(keys, alphabeticalOrder) ==
  IF alphabeticalOrder THEN Sort("alpha", keys) ELSE keys

NoReport == [numeric |-> <<>>, prefixed |-> <<>>, string |-> <<>>]

\* Table.getMigrationKeys(): the sorted keys, or the mixed-patterns error
\* with the keys its message lists under each class
GetMigrationKeys(decl, alphabeticalOrder) ==
  LET keys == ObjectKeys(decl)
      allPureNumeric == \A i \in 1..Len(keys) : PureNumeric(keys[i])
      allNumericPrefix == \A i \in 1..Len(keys) : DigitLed(keys[i])
      allPureString == \A i \in 1..Len(keys) : ~DigitLed(keys[i])
  IN IF keys = <<>>
     THEN [threw |-> FALSE, keys |-> <<>>, report |-> NoReport, warned |-> FALSE]
     ELSE IF ~allPureNumeric /\ ~allNumericPrefix /\ ~allPureString
     THEN [threw |-> TRUE, keys |-> <<>>,
           report |-> [numeric |-> Filter(keys, {k \in Elems(keys) : PureNumeric(k)}),
                       prefixed |-> Filter(keys, {k \in Elems(keys) : PrefixedShape(k)}),
                       string |-> Filter(keys, {k \in Elems(keys) : ~DigitLed(k)})],
           warned |-> FALSE]
     ELSE IF allPureNumeric
     THEN [threw |-> FALSE, keys |-> Sort("numeric", keys), report |-> NoReport, warned |-> FALSE]
     ELSE IF allNumericPrefix
     THEN [threw |-> FALSE, keys |-> Sort("prefix", keys), report |-> NoReport, warned |-> FALSE]
     ELSE [threw |-> FALSE, keys |-> StringOrder(keys, alphabeticalOrder), report |-> NoReport,
           warned |-> ~alphabeticalOrder /\ Len(keys) > 1]

\* Table.compareMigrationKeys(a, b)
CompareMigrationKeys(a, b) ==
  IF PureNumeric(a) /\ PureNumeric(b) THEN DecimalValue(a) - DecimalValue(b)
  ELSE IF DigitLed(a) /\ DigitLed(b) THEN NumericPrefix(a) - NumericPrefix(b)
  ELSE LocaleCompare(a, b)

\* ------------------------------------------------------- migration pass
MaxKeys == 3
MaxPasses == 2

Distinct(s) == \A i, j \in 1..Len(s) : i # j => s[i] # s[j]

\* the declarations: at most MaxKeys distinct keys, in the order written
Declarations ==
  UNION {{s \in [1..n -> KeyPool] : Distinct(s)} : n \in 0..MaxKeys}

NoRecord == [exists |-> FALSE, version |-> <<>>]

\* the table whose migrations are run, and the other tables with a row in
\* the "migration" table
MigratingTable == "a"
OtherRecords == [t \in Tables \ {MigratingTable} |-> [exists |-> TRUE, version |-> <<"1">>]]

\* the rows of the "migration" table, by their "table" column
MigrationRows(m) == [t \in Tables |-> IF t = MigratingTable THEN m.record ELSE m.others[t]]

\* client("migration").where("table", name).first()
First(rows, name) == rows[name]

\* mutant of Merge: the upsert replaces every row
MergeEvery(rows, data) ==
  [t \in DOMAIN rows |-> [exists |-> TRUE, version |-> data.version]]

\* client("migration").insert(data).onConflict("table").merge()
Merge(rows, data) ==
  [rows EXCEPT ![data.table] = [exists |-> TRUE, version |-> data.version]]

\* mig: the migrations of one table and the latest migrate pass over them
\*   decl     the keys of options.migrations, as declared
\*   alphabeticalOrder  config.migrations.alphabeticalOrder
\*   pc       "new" (options written), "idle" (Table constructed, no pass
\*            running), "read" (keys sorted), "loop" (record read)
\*   sorted   sortedKeys; i the position of the loop in it
\*   version  data.version; baseVersion as read; the empty key is ""
\*   record   the row of the table in the "migration" table
\*   applied  the keys whose alterTable succeeded, in the order of the calls
\*   passes   the migrate passes ended
\*   result   how the latest pass ended: "false", "version", "mixed" (the
\*            mixed-patterns error), "alter" (alterTable rejected), "" none
\*   report   the keys the mixed-patterns message lists, by class
\*   warned   logger.warn was called by the latest pass
\*   fresh    the latest pass found no record
\*   prev     how the pass before the latest one ended
\*   appliedAt  the number of applied migrations when the latest pass began
\*   cmp      the latest call of compareMigrationKeys: arguments and result
\*   hasMigrations  options.migrations is given
\*   others   the rows of the other tables in the "migration" table
\*   read, written  the tables whose row the latest pass has read, upserted
NoMig == [decl |-> <<>>, alphabeticalOrder |-> FALSE, pc |-> "idle", sorted |-> <<>>,
          i |-> 0, version |-> <<>>, baseVersion |-> <<>>, record |-> NoRecord,
          applied |-> <<>>, passes |-> 0, result |-> "", report |-> NoReport,
          warned |-> FALSE, fresh |-> FALSE, prev |-> "", appliedAt |-> 0,
          cmp |-> [a |-> <<>>, b |-> <<>>, r |-> 0], hasMigrations |-> TRUE,
          others |-> OtherRecords, read |-> {}, written |-> {}]

MigInit ==
  /\ now = 0
  /\ timeout = Infinity
  /\ phase = "making"
  /\ made = {}
  /\ cache = [c \in CacheIds |-> EmptyMap]
  /\ promises = [i \in 1..MaxPromises |-> Free]
  /\ writes = {}
  /\ db = 0
  /\ lastSetVer = [t \in Tables |-> 0]
  /\ lastOp = NoOp
  /\ mig \in {[NoMig EXCEPT !.decl = d, !.alphabeticalOrder = a, !.pc = "new"] :
                d \in Declarations, a \in BOOLEAN}
            \cup {[NoMig EXCEPT !.hasMigrations = FALSE, !.alphabeticalOrder = a, !.pc = "new"] :
                    a \in BOOLEAN}
  /\ boot = NoBoot

CacheUnchanged ==
  UNCHANGED <<now, timeout, phase, made, cache, promises, writes, db, lastSetVer, lastOp, boot>>

\* new Table(options): the constructor keeps the options
NewTable ==
  /\ mig.pc = "new"
  /\ mig' = [mig EXCEPT !.pc = "idle"]
  /\ CacheUnchanged

\* migrate() up to the first await: getMigrationKeys
MigrateStart ==
  /\ mig.pc = "idle"
  /\ mig.passes < MaxPasses
  /\ LET r == GetMigrationKeys(mig.decl, mig.alphabeticalOrder)
         m == [mig EXCEPT !.prev = mig.result, !.appliedAt = Len(mig.applied),
                          !.read = {}, !.written = {}]
     IN mig' = IF ~mig.hasMigrations
               THEN [m EXCEPT !.result = "false", !.warned = FALSE, !.passes = @ + 1]
               ELSE IF r.threw
               THEN [m EXCEPT !.result = "mixed", !.report = r.report, !.warned = FALSE,
                              !.passes = @ + 1]
               ELSE IF r.keys = <<>>
               THEN [m EXCEPT !.result = "false", !.warned = FALSE, !.passes = @ + 1]
               ELSE [m EXCEPT !.pc = "read", !.sorted = r.keys, !.warned = r.warned,
                              !.result = ""]
  /\ CacheUnchanged

\* mutant of MigrateRead: the row of the table is not looked at
MigrateReadNoRecord ==
  /\ mig.pc = "read"
  /\ mig' = [mig EXCEPT !.pc = "loop", !.i = 1, !.version = <<>>,
                        !.baseVersion = <<>>, !.fresh = ~mig.record.exists,
                        !.read = {MigratingTable}]
  /\ CacheUnchanged

\* the row of the table is read: data = fromDatabase || {table, version: ""}
MigrateRead ==
  /\ mig.pc = "read"
  /\ LET fromDatabase == First(MigrationRows(mig), MigratingTable)
     IN mig' = [mig EXCEPT !.pc = "loop", !.i = 1, !.version = fromDatabase.version,
                           !.baseVersion = fromDatabase.version,
                           !.fresh = ~fromDatabase.exists, !.read = {MigratingTable}]
  /\ CacheUnchanged

\* mutant of MigrateStep: no key is skipped against data.version
MigrateStepNoSkip(ok) ==
  /\ mig.pc = "loop"
  /\ mig.i <= Len(mig.sorted)
  /\ LET key == mig.sorted[mig.i]
     IN mig' = IF ok
               THEN [mig EXCEPT !.i = @ + 1, !.version = key, !.applied = Append(@, key)]
               ELSE [mig EXCEPT !.pc = "idle", !.result = "alter", !.passes = @ + 1]
  /\ CacheUnchanged

\* one turn of the loop over sortedKeys; ok: alterTable resolves
MigrateStep(ok) ==
  /\ mig.pc = "loop"
  /\ mig.i <= Len(mig.sorted)
  /\ LET key == mig.sorted[mig.i]
         m == IF mig.version = <<>> THEN mig
              ELSE [mig EXCEPT !.cmp = [a |-> key, b |-> mig.version,
                                        r |-> CompareMigrationKeys(key, mig.version)]]
     IN mig' = IF mig.version # <<>> /\ CompareMigrationKeys(key, mig.version) <= 0
               THEN [m EXCEPT !.i = @ + 1]
               ELSE IF ok
               THEN [m EXCEPT !.i = @ + 1, !.version = key, !.applied = Append(@, key)]
               ELSE [m EXCEPT !.pc = "idle", !.result = "alter", !.passes = @ + 1]
  /\ CacheUnchanged

\* after the loop: insert(data).onConflict("table").merge()
MigrateUpsert ==
  /\ mig.pc = "loop"
  /\ mig.i > Len(mig.sorted)
  /\ LET rows == Merge(MigrationRows(mig), [table |-> MigratingTable, version |-> mig.version])
     IN mig' = [mig EXCEPT !.pc = "idle", !.passes = @ + 1,
                           !.record = rows[MigratingTable],
                           !.others = [t \in DOMAIN mig.others |-> rows[t]],
                           !.written = {MigratingTable},
                           !.result = IF mig.baseVersion = mig.version THEN "false" ELSE "version"]
  /\ CacheUnchanged

MigNext ==
  \/ NewTable
  \/ MigrateStart
  \/ MigrateRead
  \/ \E ok \in BOOLEAN : MigrateStep(ok)
  \/ MigrateUpsert

MigSpec == MigInit /\ [][MigNext]_vars

\* between two passes a migration is added to the declarations of the table
AddMigration(k) ==
  /\ mig.pc = "idle"
  /\ mig.passes >= 1
  /\ Len(mig.decl) < MaxKeys
  /\ k \notin Elems(mig.decl)
  /\ mig' = [mig EXCEPT !.decl = Append(@, k), !.hasMigrations = TRUE]
  /\ CacheUnchanged

GrowNext == MigNext \/ \E k \in KeyPool : AddMigration(k)

\* migrate passes over declarations that only grow
GrowSpec == MigInit /\ [][GrowNext]_vars

\* ------------------------------------------------------------ ORM.init
MaxInits == 2

\* options.priority of a table file, when it is given: a number or Infinity
Priorities == {1, Infinity}

\* the priorities of the table files; a file outside the domain gives none
PriorityOptions == UNION {[D -> Priorities] : D \in SUBSET Tables}

\* the load orders of the table files: handler.elements after handler.init()
LoadOrders == {s \in [1..Cardinality(Tables) -> Tables] : \A i, j \in 1..Len(s) : i # j => s[i] # s[j]}

\* table.options.priority ?? 0
PriorityOf(prio, t) ==
  IF t = MigrationTable THEN Infinity ELSE IF t \notin DOMAIN prio THEN 0 ELSE prio[t]

\* (a, b) => (b.options.priority ?? 0) - (a.options.priority ?? 0); the
\* difference of two Infinity is NaN, which toSorted takes as 0
ComparePriority(prio, a, b) ==
  IF PriorityOf(prio, a) = Infinity /\ PriorityOf(prio, b) = Infinity THEN 0
  ELSE PriorityOf(prio, b) - PriorityOf(prio, a)

RECURSIVE InsertTable(_, _, _)
InsertTable(prio, x, s) ==
  IF s = <<>> THEN <<x>>
  ELSE IF ComparePriority(prio, x, s[Len(s)]) >= 0 THEN s \o <<x>>
  ELSE InsertTable(prio, x, SubSeq(s, 1, Len(s) - 1)) \o <<s[Len(s)]>>

RECURSIVE ToSorted(_, _)
\* this.cachedTables.toSorted(comparator): a stable sort
ToSorted(prio, s) ==
  IF s = <<>> THEN <<>>
  ELSE InsertTable(prio, s[Len(s)], ToSorted(prio, SubSeq(s, 1, Len(s) - 1)))

BootInit ==
  /\ now = 0
  /\ timeout = Infinity
  /\ phase = "new"
  /\ made = {}
  /\ cache = [c \in CacheIds |-> EmptyMap]
  /\ promises = [i \in 1..MaxPromises |-> Free]
  /\ writes = {}
  /\ db = 0
  /\ lastSetVer = [t \in Tables |-> 0]
  /\ lastOp = NoOp
  /\ mig = NoMig
  /\ boot \in {[NoBoot EXCEPT !.prio = p, !.loaded = l, !.hasMig = h] :
                 p \in PriorityOptions, l \in LoadOrders, h \in SUBSET Tables}

BootFrame == UNCHANGED <<now, timeout, promises, writes, db, lastSetVer, lastOp, mig>>

Current == boot.order[boot.idx]

Event(t, step) == [t |-> t, step |-> step]

\* ORM.init up to the loop: the files are loaded, the migration table is
\* added after them, and the tables are sorted by priority
BootStart ==
  /\ boot.pc = "idle"
  /\ boot.inits < MaxInits
  /\ IF boot.connected
     THEN /\ boot' = [boot EXCEPT !.pc = "loop", !.idx = 1, !.log = <<>>, !.inits = @ + 1,
                                  !.thens = [t \in BootTables |-> 0],
                                  !.order = ToSorted(boot.prio, boot.loaded \o <<MigrationTable>>)]
          /\ phase' = IF phase = "new" THEN "making" ELSE phase
          /\ lastOp' = [NoOp EXCEPT !.op = "init"]
     ELSE /\ lastOp' = [NoOp EXCEPT !.op = "init", !.threw = TRUE]
          /\ UNCHANGED <<boot, phase>>
  /\ UNCHANGED <<made, cache>>
  /\ UNCHANGED <<now, timeout, promises, writes, db, lastSetVer, mig>>

\* table.make(orm) up to its first await: the ORM is attached, the caches
\* are created and createTable is issued
MakeBegin ==
  /\ boot.pc = "loop"
  /\ boot.idx <= Len(boot.order)
  /\ boot' = [boot EXCEPT !.pc = "create", !.log = Append(@, Event(Current, "create")),
                          !.attached = @ \cup {Current}]
  /\ made' = made \cup ({Current} \cap Tables)
  /\ cache' = [c \in CacheIds |->
                 IF c \in {WhereCache(Current), CountCache(Current)} THEN EmptyMap ELSE cache[c]]
  /\ UNCHANGED phase
  /\ BootFrame

\* createTable settles: the table is created, or it was there already;
\* syntax: the columns callback is rejected and make rethrows
MakeCreated(syntax) ==
  /\ boot.pc = "create"
  /\ boot' = IF syntax
             THEN [boot EXCEPT !.pc = "failed"]
             ELSE [boot EXCEPT !.pc = "migrate", !.exists = @ \cup {Current},
                               !.log = Append(@, Event(Current, "migrate"))]
  /\ UNCHANGED <<phase, made, cache>>
  /\ BootFrame

\* migrate() settles; a table with migrations reads the migration table,
\* which fails while that table does not exist; ok: no migration rejects
MakeMigrated(ok) ==
  /\ boot.pc = "migrate"
  /\ boot' = IF Current \in boot.hasMig /\ (~ok \/ MigrationTable \notin boot.exists)
             THEN [boot EXCEPT !.pc = "failed"]
             ELSE [boot EXCEPT !.pc = "count"]
  /\ UNCHANGED <<phase, made, cache>>
  /\ BootFrame

\* mutant of MakeCounted: the then callback runs whatever count() returned
MakeCountedAlways(seeds) ==
  /\ boot.pc = "count"
  /\ boot' = IF Current # MigrationTable
             THEN [boot EXCEPT !.pc = "loop", !.idx = @ + 1,
                               !.log = Append(@, Event(Current, "then")),
                               !.thens[Current] = @ + 1,
                               !.rows = IF seeds THEN @ \cup {Current} ELSE @]
             ELSE [boot EXCEPT !.pc = "loop", !.idx = @ + 1]
  /\ UNCHANGED <<phase, made, cache>>
  /\ BootFrame

\* (await this.count()) === 0, then the then callback if there is one;
\* seeds: the callback inserts rows
MakeCounted(seeds) ==
  /\ boot.pc = "count"
  /\ boot' = IF Current \notin boot.rows /\ Current # MigrationTable
             THEN [boot EXCEPT !.pc = "loop", !.idx = @ + 1,
                               !.log = Append(@, Event(Current, "then")),
                               !.thens[Current] = @ + 1,
                               !.rows = IF seeds THEN @ \cup {Current} ELSE @]
             ELSE [boot EXCEPT !.pc = "loop", !.idx = @ + 1]
  /\ UNCHANGED <<phase, made, cache>>
  /\ BootFrame

\* mutant of BootDone: _ready is set whether or not a make has thrown
BootDoneFinally ==
  /\ boot.pc = "failed" \/ (boot.pc = "loop" /\ boot.idx > Len(boot.order))
  /\ boot' = [boot EXCEPT !.pc = IF boot.pc = "failed" THEN "failed" ELSE "idle"]
  /\ phase' = "ready"
  /\ UNCHANGED <<made, cache>>
  /\ BootFrame

\* after the loop: this._ready = true
BootDone ==
  /\ boot.pc = "loop"
  /\ boot.idx > Len(boot.order)
  /\ boot' = [boot EXCEPT !.pc = "idle"]
  /\ phase' = "ready"
  /\ UNCHANGED <<made, cache>>
  /\ BootFrame

\* another client of the database inserts a row into a table
ExternalInsert(t) ==
  /\ t \in boot.exists \ boot.rows
  /\ boot.pc \in {"idle", "loop"}
  /\ boot' = [boot EXCEPT !.rows = @ \cup {t}]
  /\ UNCHANGED <<phase, made, cache>>
  /\ BootFrame

BootNext ==
  \/ BootStart
  \/ MakeBegin
  \/ \E syntax \in BOOLEAN : MakeCreated(syntax)
  \/ \E ok \in BOOLEAN : MakeMigrated(ok)
  \/ \E seeds \in BOOLEAN : MakeCounted(seeds)
  \/ BootDone
  \/ \E t \in Tables : ExternalInsert(t)

BootSpec == BootInit /\ [][BootNext]_vars

\* ------------------------------------------------- use of a dependency
\* the calls that need the Knex client of the ORM or the ORM of a table
OrmCalls == {"client", "init", "hasTable", "raw", "createBackup", "restoreBackup"}
TableCalls == {"table.cache", "table.client", "table.query"}

\* get isConnected(): this._client !== undefined
IsConnected == boot.connected

\* get cachedTables(): the elements of the handler, none without a handler
CachedTablesOf(b) ==
  IF ~b.connected \/ b.inits = 0 THEN <<>> ELSE b.loaded \o <<MigrationTable>>

\* the tables of s before the first one that has no ORM attached
RECURSIVE AttachedPrefix(_, _)
AttachedPrefix(s, attached) ==
  IF s = <<>> \/ Head(s) \notin attached THEN <<>>
  ELSE <<Head(s)>> \o AttachedPrefix(Tail(s), attached)

DepCall(name, t, threw) == [NoOp EXCEPT !.op = name, !.t = t, !.threw = threw]

DepFrame == UNCHANGED <<now, timeout, phase, made, writes, db, lastSetVer, mig>>

\* orm.client
OrmClient ==
  /\ lastOp' = DepCall("client", "", ~boot.connected)
  /\ UNCHANGED <<boot, cache, promises>>
  /\ DepFrame

\* orm.hasTable(name)
OrmHasTable(t) ==
  /\ lastOp' = [DepCall("hasTable", t, ~boot.connected) EXCEPT
                  !.ret = IF boot.connected /\ t \in boot.exists THEN 1 ELSE 0]
  /\ UNCHANGED <<boot, cache, promises>>
  /\ DepFrame

\* mutant of OrmRaw: the caches are invalidated whether or not init is done
OrmRawAlways(sql) ==
  LET inv == IF boot.connected THEN OrmInvalidate(cache)
             ELSE [cache |-> cache, threw |-> FALSE]
      op == ClearOp("raw", <<>>, "", sql, ~boot.connected \/ inv.threw)
  IN /\ cache' = inv.cache
     /\ lastOp' = op
     /\ promises' = Collect(promises, inv.cache, op)
     /\ UNCHANGED boot
     /\ DepFrame

\* orm.raw(sql): requireClient, the invalidation of a ready ORM, the query
OrmRaw(sql) ==
  LET inv == IF boot.connected /\ phase = "ready" THEN OrmInvalidate(cache)
             ELSE [cache |-> cache, threw |-> FALSE]
      op == ClearOp("raw", <<>>, "", sql, ~boot.connected \/ inv.threw)
  IN /\ cache' = inv.cache
     /\ lastOp' = op
     /\ promises' = Collect(promises, inv.cache, op)
     /\ UNCHANGED boot
     /\ DepFrame

\* orm.createBackup(): backupTable of every cached table, in their order;
\* a table without ORM ends the call with "missing ORM"
OrmCreateBackup ==
  LET tabs == CachedTablesOf(boot)
      done == AttachedPrefix(tabs, boot.attached)
  IN /\ lastOp' = DepCall("createBackup", "", ~boot.connected \/ Len(done) < Len(tabs))
     /\ boot' = IF ~boot.connected \/ done = <<>> THEN boot
                ELSE [boot EXCEPT !.backup = [made |-> TRUE,
                                              rows |-> @.rows \cup (Elems(done) \cap boot.rows)]]
     /\ UNCHANGED <<cache, promises>>
     /\ DepFrame

\* orm.restoreBackup(): restoreBackup of every cached table, in their
\* order: the rows of the table are deleted and those of its files inserted;
\* a table without ORM, or a missing backup directory, ends the call
OrmRestoreBackup ==
  LET tabs == CachedTablesOf(boot)
      done == IF boot.backup.made THEN AttachedPrefix(tabs, boot.attached) ELSE <<>>
  IN /\ lastOp' = DepCall("restoreBackup", "", ~boot.connected \/ Len(done) < Len(tabs))
     /\ boot' = IF ~boot.connected THEN boot
                ELSE [boot EXCEPT !.rows = (@ \ Elems(done)) \cup (Elems(done) \cap boot.backup.rows)]
     /\ UNCHANGED <<cache, promises>>
     /\ DepFrame

\* mutant of TableCache: the facade is returned without looking at the caches
TableCacheUnchecked(t) ==
  /\ lastOp' = DepCall("table.cache", t, FALSE)
  /\ UNCHANGED <<boot, cache, promises>>
  /\ DepFrame

\* table.cache: the facade, or "missing cache" before make created the caches
TableCache(t) ==
  /\ lastOp' = DepCall("table.cache", t, t \notin made)
  /\ UNCHANGED <<boot, cache, promises>>
  /\ DepFrame

\* table.client and table.query: requireOrm
TableClient(t, name) ==
  /\ lastOp' = DepCall(name, t, t \notin boot.attached)
  /\ UNCHANGED <<boot, cache, promises>>
  /\ DepFrame

DepCalls ==
  \/ OrmClient
  \/ \E t \in BootTables : OrmHasTable(t)
  \/ \E sql \in Sqls : OrmRaw(sql)
  \/ OrmCreateBackup
  \/ OrmRestoreBackup
  \/ \E t \in Tables : TableCache(t)
  \/ \E t \in Tables, name \in {"table.client", "table.query"} : TableClient(t, name)

\* an ORM built with a configuration or with false, its table files written
DepInit ==
  /\ now = 0
  /\ timeout = Infinity
  /\ phase = "new"
  /\ made = {}
  /\ cache = [c \in CacheIds |-> EmptyMap]
  /\ promises = [i \in 1..MaxPromises |-> Free]
  /\ writes = {}
  /\ db = 0
  /\ lastSetVer = [t \in Tables |-> 0]
  /\ lastOp = NoOp
  /\ mig = NoMig
  /\ boot \in {[NoBoot EXCEPT !.connected = c, !.loaded = TableOrder, !.hasMig = h] :
                 c \in BOOLEAN, h \in SUBSET Tables}

DepNext == DepCalls \/ BootNext

DepSpec == DepInit /\ [][DepNext]_vars

Init ==
  /\ now = 0
  /\ timeout \in TTLs
  /\ phase = "new"
  /\ made = {}
  /\ cache = [c \in CacheIds |-> EmptyMap]
  /\ promises = [i \in 1..MaxPromises |-> Free]
  /\ writes = {}
  /\ db = 0
  /\ lastSetVer = [t \in Tables |-> 0]
  /\ lastOp = NoOp
  /\ mig = NoMig
  /\ boot = NoBoot

\* ------------------------------------------------------------------ init
\* ORM.init up to the loop: handler.init() loads the table files
InitStart ==
  /\ phase = "new"
  /\ phase' = "making"
  /\ UNCHANGED <<boot, mig, now, timeout, made, cache, promises, writes, db, lastSetVer, lastOp>>

\* Table.make: attaches the ORM and creates the two caches
Make(t) ==
  /\ phase = "making"
  /\ t \notin made
  /\ \A u \in Tables \ made : Priority[u] <= Priority[t]
  /\ made' = made \cup {t}
  /\ cache' = [cache EXCEPT ![WhereCache(t)] = EmptyMap, ![CountCache(t)] = EmptyMap]
  /\ UNCHANGED <<boot, mig, now, timeout, phase, promises, writes, db, lastSetVer, lastOp>>

\* ORM.init after the loop: this._ready = true
InitDone ==
  /\ phase = "making"
  /\ made = Tables
  /\ phase' = "ready"
  /\ UNCHANGED <<boot, mig, now, timeout, made, cache, promises, writes, db, lastSetVer, lastOp>>

\* ----------------------------------------------------------- table facade
\* table.cache.get(id, cb)
TableCacheGet(t, id, cb) ==
  /\ t \in made
  /\ CanCall(cache, WhereCache(t), id)
  /\ LET r == Get(cache, WhereCache(t), id, cb)
         op == [ReadOp("get", cache, WhereCache(t), t, id, r) EXCEPT !.arg = cb]
     IN /\ cache' = r.cache
        /\ lastOp' = op
        /\ promises' = Collect(r.promises, r.cache, op)
  /\ UNCHANGED <<boot, mig, now, timeout, phase, made, writes, db, lastSetVer>>

\* table.cache.count(where?)
TableCacheCount(t, where) ==
  LET key == IF where = Undefined THEN "*" ELSE where
  IN /\ t \in made
     /\ CanCall(cache, CountCache(t), key)
     /\ LET r == Get(cache, CountCache(t), key, where)
            op == [ReadOp("count", cache, CountCache(t), t, key, r) EXCEPT !.arg = where]
        IN /\ cache' = r.cache
           /\ lastOp' = op
           /\ promises' = Collect(r.promises, r.cache, op)
     /\ UNCHANGED <<boot, mig, now, timeout, phase, made, writes, db, lastSetVer>>

\* a write query on table t, issued by cache.set or through table.query
Write(t, viaSet) == [t |-> t, viaSet |-> viaSet]

CanWrite(w) == w \notin writes /\ Cardinality(writes) + db < MaxWrites

\* mutant of SetBody: the write callback is invoked and nothing is invalidated
SetBodyNoInvalidate(ch) ==
  [cache |-> ch, threw |-> FALSE, atInvoke |-> ch, calls |-> 1]

\* mutant of SetBody: only the raw cache is invalidated before the write
SetBodyRawOnly(ch) ==
  LET inv == OrmInvalidateRawOnly(ch)
  IN [cache |-> inv.cache, threw |-> inv.threw,
      atInvoke |-> IF inv.threw THEN [c \in CacheIds |-> EmptyMap] ELSE inv.cache,
      calls |-> IF inv.threw THEN 0 ELSE 1]

\* mutant of SetBody: the write callback is invoked before the invalidation
SetBodyWriteFirst(ch) ==
  LET inv == OrmInvalidate(ch)
  IN [cache |-> inv.cache, threw |-> inv.threw, atInvoke |-> ch, calls |-> 1]

\* set: (cb) => { this.orm.cache.invalidate(); return cb(this.query) }
\* atInvoke: the caches as they are when cb is invoked
SetBody(ch) ==
  LET inv == OrmInvalidate(ch)
  IN [cache |-> inv.cache, threw |-> inv.threw,
      atInvoke |-> IF inv.threw THEN [c \in CacheIds |-> EmptyMap] ELSE inv.cache,
      calls |-> IF inv.threw THEN 0 ELSE 1]

\* table.cache.set(cb)
TableCacheSet(t) ==
  /\ t \in made
  /\ CanWrite(Write(t, TRUE))
  /\ LET r == SetBody(cache)
         op == [ClearOp("set", <<>>, t, "", r.threw) EXCEPT
                  !.calls = r.calls, !.atInvoke = NonEmpty(r.atInvoke),
                  !.wrote = IF r.calls = 1 THEN Write(t, TRUE) ELSE <<>>]
     IN /\ cache' = r.cache
        /\ writes' = IF r.calls = 1 THEN writes \cup {Write(t, TRUE)} ELSE writes
        /\ lastOp' = op
        /\ promises' = Collect(promises, r.cache, op)
  /\ UNCHANGED <<boot, mig, now, timeout, phase, made, db, lastSetVer>>

\* table.cache.invalidate()
TableCacheInvalidate(t) ==
  /\ t \in made
  /\ LET ch == TableInvalidate(cache, t)
         op == ClearOp("tableInvalidate", <<>>, t, "", FALSE)
     IN /\ cache' = ch
        /\ lastOp' = op
        /\ promises' = Collect(promises, ch, op)
  /\ UNCHANGED <<boot, mig, now, timeout, phase, made, writes, db, lastSetVer>>

\* a mutation through the uncached path: table.query.insert/update/delete
TableQuery(t) ==
  /\ t \in made
  /\ CanWrite(Write(t, FALSE))
  /\ writes' = writes \cup {Write(t, FALSE)}
  /\ lastOp' = [NoOp EXCEPT !.op = "query", !.t = t]
  /\ promises' = Collect(promises, cache, NoOp)
  /\ UNCHANGED <<boot, mig, now, timeout, phase, made, cache, db, lastSetVer>>

\* -------------------------------------------------------------- ORM cache
\* orm.cache.invalidate()
OrmCacheInvalidate ==
  /\ LET inv == OrmInvalidate(cache)
         op == ClearOp("ormInvalidate", <<>>, "", "", inv.threw)
     IN /\ cache' = inv.cache
        /\ lastOp' = op
        /\ promises' = Collect(promises, inv.cache, op)
  /\ UNCHANGED <<boot, mig, now, timeout, phase, made, writes, db, lastSetVer>>

\* orm.cache.raw(sql, anyDataUpdated?)
OrmCacheRaw(sql, anyDataUpdated) ==
  LET inv == IF anyDataUpdated THEN OrmInvalidate(cache) ELSE [cache |-> cache, threw |-> FALSE]
  IN /\ ~inv.threw => CanCall(inv.cache, RawCache, sql)
     /\ LET r == IF inv.threw
                 THEN [cache |-> inv.cache, promises |-> promises, ret |-> 0, threw |-> TRUE,
                       calls |-> 0]
                 ELSE Get(inv.cache, RawCache, sql, sql)
            op == ReadOp("raw", inv.cache, RawCache, "", sql, r)
        IN /\ cache' = r.cache
           /\ lastOp' = op
           /\ promises' = Collect(r.promises, r.cache, op)
     /\ UNCHANGED <<boot, mig, now, timeout, phase, made, writes, db, lastSetVer>>

\* ResponseCache.invalidate(id?) called on one cache instance
Invalidate(c, id) ==
  /\ c = RawCache \/ c[2] \in made
  /\ LET ch == [cache EXCEPT ![c] = InvalidateMap(@, id)]
         op == ClearOp("invalidate", c, "", id, FALSE)
     IN /\ cache' = ch
        /\ lastOp' = op
        /\ promises' = Collect(promises, ch, op)
  /\ UNCHANGED <<boot, mig, now, timeout, phase, made, writes, db, lastSetVer>>

\* a ResponseCache used directly: fetch(id, cb) on the row cache of table a
CacheFetch(id, cb) ==
  LET c == WhereCache("a")
      rest == [cache EXCEPT ![c] = [k \in DOMAIN @ \ {id} |-> @[k]]]
      held == IF cb = "throw" THEN promises ELSE Collect(promises, rest, NoOp)
  IN /\ \E i \in 1..MaxPromises : held[i].state = "free"
     /\ LET r == Fetch(cache, held, c, id, cb)
            op == ReadOp("fetch", cache, c, "a", id, r)
        IN /\ cache' = r.cache
           /\ lastOp' = op
           /\ promises' = Collect(r.promises, r.cache, op)
     /\ UNCHANGED <<boot, mig, now, timeout, phase, made, writes, db, lastSetVer>>

\* --------------------------------------------------------------- database
\* the database executes a read query: its promise is fulfilled with what the
\* database holds at that moment, or rejected
ExecRead(i) ==
  /\ promises[i].state \in {"pending", "failing"}
  /\ promises' = [promises EXCEPT ![i] =
                    IF @.state = "pending" THEN [@ EXCEPT !.state = "fulfilled", !.val = db]
                    ELSE [@ EXCEPT !.state = "rejected"]]
  /\ UNCHANGED <<boot, mig, now, timeout, phase, made, cache, writes, db, lastSetVer, lastOp>>

\* the database executes a write query: it commits or fails
ExecWrite(w, ok) ==
  /\ w \in writes
  /\ db' = IF ok THEN db + 1 ELSE db
  /\ lastSetVer' = IF ok /\ w.viaSet THEN [lastSetVer EXCEPT ![w.t] = db + 1] ELSE lastSetVer
  /\ writes' = writes \ {w}
  /\ lastOp' = IF lastOp.wrote = w
               THEN [lastOp EXCEPT !.outcome = IF ok THEN "committed" ELSE "failed"]
               ELSE lastOp
  /\ UNCHANGED <<boot, mig, now, timeout, phase, made, cache, promises>>

Tick ==
  /\ now < MaxTime
  /\ now' = now + 1
  /\ UNCHANGED <<boot, mig, timeout, phase, made, cache, promises, writes, db, lastSetVer, lastOp>>

\* ---------------------------------------------------------- specifications
\* ORM.init, one await at a time
InitSteps ==
  \/ InitStart
  \/ \E t \in Tables : Make(t)
  \/ InitDone

\* the database executes the queries in flight, in any order
Database ==
  \/ \E i \in 1..MaxPromises : ExecRead(i)
  \/ \E w \in writes, ok \in BOOLEAN : ExecWrite(w, ok)

\* the calls of the table facade and of the ORM cache
Calls ==
  \/ \E t \in Tables : TableCacheGet(t, "k", "query")
  \/ \E t \in Tables, w \in Wheres : TableCacheCount(t, w)
  \/ \E t \in Tables : TableCacheSet(t)
  \/ \E t \in Tables : TableCacheInvalidate(t)
  \/ \E t \in Tables : TableQuery(t)
  \/ OrmCacheInvalidate
  \/ \E s \in Sqls, u \in BOOLEAN : OrmCacheRaw(s, u)

\* concurrent callers, from the construction of the ORM on: calls interleave
\* with ORM.init and with the database, within one instant of the clock
Next == Calls \/ InitSteps \/ Database

Spec == Init /\ [][Next]_vars

\* the state right after `await orm.init()`: every table made, caches empty
ReadyInit ==
  /\ now = 0
  /\ timeout \in TTLs
  /\ phase = "ready"
  /\ made = Tables
  /\ cache = [c \in CacheIds |-> EmptyMap]
  /\ promises = [i \in 1..MaxPromises |-> Free]
  /\ writes = {}
  /\ db = 0
  /\ lastSetVer = [t \in Tables |-> 0]
  /\ lastOp = NoOp
  /\ mig = NoMig
  /\ boot = NoBoot

\* concurrent callers of an initialised ORM, while the clock advances
ReadyNext == Calls \/ Database \/ Tick

ReadySpec == ReadyInit /\ [][ReadyNext]_vars

\* the raw cache of an initialised ORM: cached raw queries with two SQL
\* strings, next to the calls that invalidate
RawCalls ==
  \/ \E s \in RawSqls, u \in BOOLEAN : OrmCacheRaw(s, u)
  \/ OrmCacheInvalidate
  \/ \E t \in Tables : TableCacheSet(t)

RawNext == RawCalls \/ Database \/ Tick

RawSpec == ReadyInit /\ [][RawNext]_vars

\* every query has been executed: nothing is in flight
Quiescent ==
  /\ writes = {}
  /\ \A i \in 1..MaxPromises : promises[i].state \notin {"pending", "failing"}

\* the same program driven by one caller that awaits each call before the next
SeqNext == (Quiescent /\ Calls) \/ InitSteps \/ Database \/ Tick

SeqSpec == Init /\ [][SeqNext]_vars

\* one ResponseCache instance (the row-set cache of table a) used on its own
CacheCalls ==
  \/ \E id \in Ids, cb \in Callbacks : TableCacheGet("a", id, cb)
  \/ \E id \in Ids \cup {Undefined} : Invalidate(WhereCache("a"), id)

CacheNext ==
  \/ CacheCalls
  \/ InitSteps
  \/ \E i \in 1..MaxPromises : ExecRead(i)
  \/ Tick

CacheSpec == Init /\ [][CacheNext]_vars

\* one ResponseCache under get, fetch and invalidate, while the clock advances
FetchCalls ==
  \/ \E id \in Ids, cb \in Callbacks : TableCacheGet("a", id, cb)
  \/ \E id \in Ids, cb \in Callbacks : CacheFetch(id, cb)
  \/ \E id \in Ids \cup {Undefined} : Invalidate(WhereCache("a"), id)

FetchNext ==
  \/ FetchCalls
  \/ \E i \in 1..MaxPromises : ExecRead(i)
  \/ Tick

FetchSpec == ReadyInit /\ [][FetchNext]_vars

\* the filters given to table.cache.count of the count specification
Filters == {Undefined, "*", "w"}

\* the count cache of table a of an initialised ORM under several filters
CountNext ==
  \/ \E w \in Filters : TableCacheCount("a", w)
  \/ TableCacheInvalidate("a")
  \/ \E i \in 1..MaxPromises : ExecRead(i)
  \/ Tick

CountSpec == ReadyInit /\ [][CountNext]_vars

\* a connected ORM from its construction on: init, which may fail, next to
\* cached reads and orm.raw
RawInitInit ==
  /\ DepInit
  /\ boot.connected

RawInitCalls ==
  \/ \E t \in Tables : TableCacheGet(t, "k", "query")
  \/ \E s \in Sqls : OrmCacheRaw(s, FALSE)
  \/ \E s \in Sqls : OrmRaw(s)

RawInitNext == RawInitCalls \/ BootNext

RawInitSpec == RawInitInit /\ [][RawInitNext]_vars

\* a connected ORM whose tables are read through the cache, backed up and
\* restored
RestoreNext ==
  \/ \E t \in Tables : TableCacheGet(t, "k", "query")
  \/ OrmCreateBackup
  \/ OrmRestoreBackup
  \/ BootNext

RestoreSpec == RawInitInit /\ [][RestoreNext]_vars

\* ------------------------------------------------------------------ claims
IsRead == lastOp.op \in {"get", "count"}
Fulfilled(i) == i # 0 /\ promises[i].state = "fulfilled"
AllEmpty == \A c \in CacheIds : cache[c] = EmptyMap
TableCaches(t) == {WhereCache(t), CountCache(t)}

\* C1: when one caller awaits each call, a table.cache.get or table.cache.count
\* on table t made after a completed table.cache.set on t resolves to a value
\* read from the database after that write, never to one cached before it.
C1_FreshAfterSet ==
  (IsRead /\ Fulfilled(lastOp.ret)) => promises[lastOp.ret].val >= lastSetVer[lastOp.t]

C1_Witness ==
  /\ lastOp.op = "count" /\ lastOp.t = "a" /\ lastOp.calls = 1
  /\ lastSetVer["a"] = 1
  /\ Fulfilled(lastOp.ret) /\ promises[lastOp.ret].val = 1

\* C2: under every interleaving, a table.cache.get or table.cache.count on
\* table t made after a cache.set write on t has committed never resolves to a
\* value read before that write.
C2_NoStaleReadAfterCommit ==
  (IsRead /\ Fulfilled(lastOp.ret)) => promises[lastOp.ret].val >= lastOp.setVerAt

\* C3 as stated: as long as no invalidation has removed the entry of a key, a
\* table.cache.get or table.cache.count of that key keeps returning the stored
\* value although the table has been changed through table.query.
C3_StaleUntilInvalidated ==
  (IsRead /\ lastOp.stale) => (lastOp.calls = 0 /\ lastOp.ret = lastOp.pre)

\* C3 as amended: the stored value is returned, although the table has been
\* changed through table.query, as long as the entry has neither been removed
\* by an invalidation nor passed its expiry time; a read that finds no entry,
\* or an entry past its expiry time, resolves to a value read after every
\* change committed before the read.
C3_StaleWhileLive ==
  /\ (IsRead /\ lastOp.stale /\ lastOp.age \in {"live", "edge"})
       => (lastOp.calls = 0 /\ lastOp.ret = lastOp.pre)
  /\ (IsRead /\ lastOp.age \in {"absent", "expired"} /\ Fulfilled(lastOp.ret))
       => (lastOp.calls = 1 /\ promises[lastOp.ret].val >= lastOp.dbAt)

C3_Witness ==
  /\ lastOp.op = "count" /\ lastOp.stale /\ lastOp.age = "live"
  /\ lastOp.dbAt = 1 /\ Fulfilled(lastOp.ret) /\ promises[lastOp.ret].val = 0

C5_NoEntryOnFailure ==
  /\ \A c \in CacheIds : \A k \in DOMAIN cache[c] :
       promises[cache[c][k].value].state # "rejected"
  /\ (lastOp.op = "get" /\ lastOp.threw)
       => IF lastOp.pre = 0 THEN lastOp.k \notin DOMAIN cache[lastOp.c]
          ELSE cache[lastOp.c][lastOp.k].value = lastOp.pre

\* C6: invalidate(k) with a string key k, the empty string included, removes
\* the entry of k and leaves every other entry of the cache as it was.
C6_InvalidateKeyExact ==
  [][\A id \in Ids :
       Invalidate(WhereCache("a"), id)
         => cache'[WhereCache("a")] =
              [k \in DOMAIN cache[WhereCache("a")] \ {id} |-> cache[WhereCache("a")][k]]]_vars

\* C7: invalidate() without a key leaves the map of that cache empty, and a
\* get of a key that has no entry invokes the producer.
C7_InvalidateAll ==
  /\ (lastOp.op = "invalidate" /\ lastOp.k = Undefined) => cache[lastOp.c] = EmptyMap
  /\ (lastOp.op = "get" /\ lastOp.age = "absent") => lastOp.calls = 1

C7_Witness ==
  /\ lastOp.op = "invalidate" /\ lastOp.k = Undefined
  /\ lastOp.c \in lastOp.had

\* C8: orm.cache.invalidate() on an initialised ORM does not throw and leaves
\* the row-set cache and the count cache of every table and the raw cache
\* empty, so that a later read finds no entry and invokes its producer.
C8_OrmInvalidateClearsAll ==
  /\ (lastOp.op = "ormInvalidate" /\ lastOp.ready) => (~lastOp.threw /\ AllEmpty)
  /\ (lastOp.op \in {"get", "count", "raw"} /\ ~lastOp.threw /\ lastOp.pre = 0)
       => (lastOp.calls = 1 /\ lastOp.age = "absent")

C8_Witness ==
  /\ lastOp.op = "ormInvalidate" /\ lastOp.ready
  /\ RawCache \in lastOp.had
  /\ \E t \in Tables : TableCaches(t) \cap lastOp.had # {}

\* C9: table.cache.invalidate() on table t empties the row-set cache and the
\* count cache of t and the raw cache, and leaves the caches of every other
\* table as they were.
C9_TableInvalidateFrame ==
  [][\A t \in Tables :
       TableCacheInvalidate(t)
         => /\ \A c \in TableCaches(t) \cup {RawCache} : cache'[c] = EmptyMap
            /\ \A u \in Tables \ {t} : \A c \in TableCaches(u) : cache'[c] = cache[c]]_vars

C9_Witness ==
  /\ lastOp.op = "tableInvalidate" /\ lastOp.t = "a"
  /\ TableCaches("a") \cap lastOp.had # {}
  /\ \E c \in TableCaches("b") : cache[c] # EmptyMap

\* C10: table.cache.set on any table has emptied the row-set cache and the
\* count cache of every table and the raw cache by the time it invokes the
\* write callback, invokes the callback exactly once with the query accessor
\* of its own table, and returns the write the callback returned.
C10_SetInvalidatesBeforeWrite ==
  lastOp.op = "set"
    => /\ ~lastOp.threw
       /\ lastOp.atInvoke = {}
       /\ lastOp.calls = 1
       /\ lastOp.wrote = Write(lastOp.t, TRUE)

\* The order of table.cache.set on an initialised ORM, where no table is left
\* to make: it does not throw, every cache is empty when the write callback
\* is invoked, and the callback is invoked exactly once.
SetOrderWhenReady ==
  (lastOp.op = "set" /\ lastOp.ready)
    => /\ ~lastOp.threw
       /\ lastOp.atInvoke = {}
       /\ lastOp.calls = 1
       /\ lastOp.wrote = Write(lastOp.t, TRUE)

SetOrderWhenReady_Witness ==
  /\ lastOp.op = "set" /\ lastOp.t = "a" /\ lastOp.ready /\ lastOp.calls = 1
  /\ RawCache \in lastOp.had
  /\ TableCaches("b") \cap lastOp.had # {}
  /\ AllEmpty

\* C11: when the write that table.cache.set returned is rejected, the caller
\* holds that rejected write, every cache is empty and the database is what
\* it was before the call; the read that follows invokes its producer and
\* resolves to what the database holds.
C11_FailedWriteLeavesCold ==
  /\ SetFailed => /\ lastOp.wrote = Write(lastOp.t, TRUE)
                  /\ AllEmpty
                  /\ db = lastOp.dbAt
  /\ (IsRead /\ lastOp.afterFail)
       => /\ lastOp.calls = 1
          /\ Fulfilled(lastOp.ret) => promises[lastOp.ret].val = db

C11_Witness ==
  /\ SetFailed /\ lastOp.t = "a"
  /\ CountCache("a") \in lastOp.had

\* the read that follows a failed cache.set write has been answered
C11_ReadAfterFailure ==
  /\ lastOp.op = "count" /\ lastOp.afterFail /\ lastOp.t = "a"
  /\ Fulfilled(lastOp.ret)

\* C12: on an initialised ORM a raw-cache entry is dropped only by
\* orm.cache.invalidate(), by a table.cache.set() or by orm.cache.raw with
\* anyDataUpdated: orm.cache.raw(s) without it drops no entry of another SQL
\* string, so that raw(s1), raw(s2), raw(s1) runs s1 once.
C12_RawEntriesSurviveOtherRaw ==
  [][\A s \in RawSqls :
       OrmCacheRaw(s, FALSE)
         => \A k \in DOMAIN cache[RawCache] \ {s} :
              /\ k \in DOMAIN cache'[RawCache]
              /\ cache'[RawCache][k] = cache[RawCache][k]]_vars

\* ------------------------------------------------------- migration claims
\* the class of a key: pure numeric, numeric-prefixed or pure string
KeyClass(k) ==
  IF PureNumeric(k) THEN "numeric" ELSE IF DigitLed(k) THEN "prefixed" ELSE "string"

Classes(decl) == {KeyClass(decl[i]) : i \in 1..Len(decl)}

\* getMigrationKeys has been called on the declaration
Ordered == mig.pc \in {"read", "loop"} \/ mig.passes > 0

\* C13: constructing the Table raises nothing, and once make has ordered a
\* declaration whose keys span more than one of the three classes (also one
\* that mixes only pure-numeric and numeric-prefixed keys) the pass has ended
\* with the mixed-patterns error.
C13_MixedKeysRejected ==
  /\ (mig.pc = "idle" /\ mig.passes = 0) => mig.result = ""
  /\ (Ordered /\ Cardinality(Classes(mig.decl)) > 1)
       => mig.pc = "idle" /\ mig.result = "mixed"

\* a declaration mixing a pure string key with digit-led keys is rejected
C13_MixedWithStringRejected ==
  (Ordered /\ "string" \in Classes(mig.decl) /\ Cardinality(Classes(mig.decl)) > 1)
    => mig.pc = "idle" /\ mig.result = "mixed"

C13_MixedWithStringRejected_Witness ==
  /\ mig.decl = << <<"1">>, <<"0", "1", "_", "a">>, <<"a">> >>
  /\ mig.result = "mixed"

\* the number of class lists of the error message that name key k
Listings(k) ==
  Cardinality({c \in {"numeric", "prefixed", "string"} :
                 \E i \in 1..Len(mig.report[c]) : mig.report[c][i] = k})

\* C14: when a pass ends with the mixed-patterns error, every declared key
\* is listed by the message under exactly one class.
C14_ReportListsEveryKey ==
  mig.result = "mixed" => \A i \in 1..Len(mig.decl) : Listings(mig.decl[i]) = 1

\* no key is listed under two classes
C14_NoKeyListedTwice ==
  mig.result = "mixed" => \A i \in 1..Len(mig.decl) : Listings(mig.decl[i]) <= 1

C14_NoKeyListedTwice_Witness ==
  /\ mig.result = "mixed"
  /\ Len(mig.report.numeric) = 1 /\ Len(mig.report.prefixed) = 1 /\ Len(mig.report.string) = 1

\* s holds the keys of the declaration d, each once
Permutation(s, d) == Len(s) = Len(d) /\ Elems(s) = Elems(d)

\* the position of key k in s
Pos(s, k) == CHOOSE i \in 1..Len(s) : s[i] = k

\* getMigrationKeys has returned the keys of a declaration of class c
OrderedClass(c) == Ordered /\ mig.result # "mixed" /\ Classes(mig.decl) = {c}

\* C15: the keys of a pure-numeric declaration are returned in ascending
\* order of their numeric value.
C15_NumericAscending ==
  OrderedClass("numeric")
    => /\ Permutation(mig.sorted, mig.decl)
       /\ \A i, j \in 1..Len(mig.sorted) :
            i < j => DecimalValue(mig.sorted[i]) <= DecimalValue(mig.sorted[j])

\* "2" is returned before "10", which text order would put first
C15_Witness ==
  /\ OrderedClass("numeric")
  /\ mig.decl = << <<"1", "0">>, <<"0", "1">>, <<"2">> >>
  /\ mig.sorted = << <<"0", "1">>, <<"2">>, <<"1", "0">> >>

\* C16: the keys of a numeric-prefixed declaration are returned in ascending
\* order of the value of their leading digit run, and two keys of equal
\* prefix value are returned in the order of their declaration.
C16_PrefixAscendingStable ==
  OrderedClass("prefixed")
    => /\ Permutation(mig.sorted, mig.decl)
       /\ \A i, j \in 1..Len(mig.sorted) :
            i < j => /\ NumericPrefix(mig.sorted[i]) <= NumericPrefix(mig.sorted[j])
                     /\ NumericPrefix(mig.sorted[i]) = NumericPrefix(mig.sorted[j])
                          => Pos(mig.decl, mig.sorted[i]) < Pos(mig.decl, mig.sorted[j])

\* "01_b" declared before "01_a" stays before it, both after nothing else
C16_Witness ==
  /\ OrderedClass("prefixed")
  /\ mig.decl = << <<"2", "_", "a">>, <<"0", "1", "_", "b">>, <<"0", "1", "_", "a">> >>
  /\ mig.sorted = << <<"0", "1", "_", "b">>, <<"0", "1", "_", "a">>, <<"2", "_", "a">> >>

\* the UTF-16 code unit of a character
CodeUnit(c) ==
  IF c = "-" THEN 45 ELSE IF c = "." THEN 46 ELSE IF IsDigit(c) THEN 48 + DigitVal(c)
  ELSE IF c = "B" THEN 66 ELSE IF c = "_" THEN 95 ELSE IF c = "a" THEN 97 ELSE 98

RECURSIVE LexLeq(_, _)
\* a is before b, or is b, in lexicographic order of the code units
LexLeq(a, b) ==
  IF a = <<>> THEN TRUE
  ELSE IF b = <<>> THEN FALSE
  ELSE IF CodeUnit(Head(a)) # CodeUnit(Head(b)) THEN CodeUnit(Head(a)) < CodeUnit(Head(b))
  ELSE LexLeq(Tail(a), Tail(b))

\* getMigrationKeys has been called on a declaration of pure-string keys
OrderedStrings == Ordered /\ Classes(mig.decl) = {"string"}

\* C17: the keys of a pure-string declaration are returned in declaration
\* order when alphabeticalOrder is unset or false and in lexicographic order
\* when it is true, and the call does not fail.
C17_StringOrderLexicographic ==
  OrderedStrings
    => /\ mig.result # "mixed"
       /\ Permutation(mig.sorted, mig.decl)
       /\ ~mig.alphabeticalOrder => mig.sorted = mig.decl
       /\ mig.alphabeticalOrder
            => \A i, j \in 1..Len(mig.sorted) : i < j => LexLeq(mig.sorted[i], mig.sorted[j])

\* C17 (amended): the keys of a pure-string declaration are returned in
\* declaration order when alphabeticalOrder is unset or false and in the
\* order of localeCompare when it is true; the call does not fail, with or
\* without the insertion-order warning.
C17_StringOrderCollated ==
  OrderedStrings
    => /\ mig.result # "mixed"
       /\ Permutation(mig.sorted, mig.decl)
       /\ ~mig.alphabeticalOrder => mig.sorted = mig.decl
       /\ mig.alphabeticalOrder
            => \A i, j \in 1..Len(mig.sorted) :
                 i < j => LocaleCompare(mig.sorted[i], mig.sorted[j]) <= 0
       /\ mig.warned => mig.result \in {"", "false", "version", "alter"}

\* alphabetical order puts "a" and "b" before "B"
C17_Witness ==
  /\ OrderedStrings /\ mig.alphabeticalOrder
  /\ mig.decl = << <<"B">>, <<"b">>, <<"a">> >>
  /\ mig.sorted = << <<"a">>, <<"b">>, <<"B">> >>

\* the warning was given and the pass went on to its end
C17_WarnedAndMigrated ==
  /\ OrderedStrings /\ ~mig.alphabeticalOrder /\ mig.warned
  /\ mig.decl = << <<"b">>, <<"a">> >> /\ mig.sorted = mig.decl
  /\ mig.result = "version"

\* C18: for a declaration accepted into one class, compareMigrationKeys(a, b)
\* is negative exactly when a comes before b in the keys getMigrationKeys
\* returned.
C18_ComparatorAgreesWithOrder ==
  (Ordered /\ mig.result # "mixed" /\ Cardinality(Classes(mig.decl)) = 1)
    => \A a, b \in Elems(mig.sorted) :
         CompareMigrationKeys(a, b) < 0 <=> Pos(mig.sorted, a) < Pos(mig.sorted, b)

\* a key the comparator puts before another is never returned after it
\* unless the keys are pure strings in insertion order
C18_ComparatorNeverReversed ==
  (Ordered /\ mig.result # "mixed" /\ Cardinality(Classes(mig.decl)) = 1
     /\ (Classes(mig.decl) = {"string"} => mig.alphabeticalOrder))
    => \A a, b \in Elems(mig.sorted) :
         CompareMigrationKeys(a, b) < 0 => Pos(mig.sorted, a) < Pos(mig.sorted, b)

C18_ComparatorNeverReversed_Witness ==
  /\ Ordered /\ mig.alphabeticalOrder
  /\ mig.decl = << <<"b">>, <<"a">> >>
  /\ mig.sorted = << <<"a">>, <<"b">> >>

\* the first pass over a database without a record has run to its upsert
FreshPassDone ==
  /\ mig.pc = "idle" /\ mig.passes = 1 /\ mig.fresh
  /\ mig.result \in {"false", "version"}

\* C19: a migrate pass over a database that holds no migration record of
\* the table applies every declared migration once, in the order
\* getMigrationKeys returned, whatever the convention of the keys.
C19_FreshPassAppliesAll ==
  (FreshPassDone /\ Cardinality(Classes(mig.decl)) = 1)
    => /\ mig.applied = mig.sorted
       /\ Permutation(mig.applied, mig.decl)

\* such a pass applies no migration twice, and applies those it applies in
\* the order getMigrationKeys returned
C19_FreshPassAppliesInOrder ==
  (FreshPassDone /\ Cardinality(Classes(mig.decl)) = 1)
    => /\ Distinct(mig.applied)
       /\ \A i, j \in 1..Len(mig.applied) :
            i < j => Pos(mig.sorted, mig.applied[i]) < Pos(mig.sorted, mig.applied[j])

C19_FreshPassAppliesInOrder_Witness ==
  /\ FreshPassDone
  /\ mig.decl = << <<"1", "0">>, <<"2">>, <<"1">> >>
  /\ mig.applied = << <<"1">>, <<"2">>, <<"1", "0">> >>

\* C20: whenever no pass is running, the migration record of the table is
\* absent or has version "" if no migration of the table has been applied,
\* and otherwise has the key of the latest migration applied to the table,
\* also after a pass in which a migration failed after another succeeded.
C20_RecordIsLastApplied ==
  mig.pc = "idle"
    => IF mig.applied = <<>>
       THEN ~mig.record.exists \/ mig.record.version = <<>>
       ELSE mig.record.exists /\ mig.record.version = mig.applied[Len(mig.applied)]

\* after a pass that ran to its upsert the record has the key of the latest
\* migration applied
C20_RecordAfterCompletedPass ==
  (mig.pc = "idle" /\ mig.result \in {"false", "version"} /\ mig.sorted # <<>>)
    => /\ mig.record.exists
       /\ mig.applied # <<>> => mig.record.version = mig.applied[Len(mig.applied)]

C20_RecordAfterCompletedPass_Witness ==
  /\ mig.pc = "idle" /\ mig.passes = 2 /\ mig.result = "false"
  /\ mig.decl = << <<"1">>, <<"2">> >>
  /\ mig.applied = << <<"1">>, <<"2">> >>
  /\ mig.record = [exists |-> TRUE, version |-> <<"2">>]

\* a pass has ended that followed a pass that ran to its upsert
SecondPassDone ==
  /\ mig.pc = "idle" /\ mig.passes >= 2
  /\ mig.prev \in {"false", "version"}

\* C21: a second pass over unchanged declarations, after a first pass that
\* completed, applies no migration, leaves the recorded version as it was
\* and returns false.
C21_SecondPassIdempotent ==
  SecondPassDone
    => /\ mig.result = "false"
       /\ Len(mig.applied) = mig.appliedAt
       /\ mig.sorted # <<>> => mig.record.exists /\ mig.record.version = mig.baseVersion

\* the first pass migrated three prefixed keys, the second one none
C21_Witness ==
  /\ SecondPassDone /\ mig.prev = "version"
  /\ mig.decl = << <<"2", "_", "a">>, <<"1", ".", "a">>, <<"0", "1", "_", "a">> >>
  /\ mig.record.version = <<"2", "_", "a">>
  /\ Len(mig.applied) = 2

\* ------------------------------------------------------------ init claims
\* the steps of the makes of the running init are grouped by table, and the
\* steps of a table of higher priority all come before those of a lower one
OneAtATimeByPriority ==
  \A i, j \in 1..Len(boot.log) :
    /\ (i < j /\ boot.log[i].t = boot.log[j].t)
         => \A k \in i..j : boot.log[k].t = boot.log[i].t
    /\ PriorityOf(boot.prio, boot.log[i].t) > PriorityOf(boot.prio, boot.log[j].t) => i < j

\* C22: init makes the tables one at a time in descending priority, the
\* migration table first: every step of a table of higher priority comes
\* before every step of a table of lower priority.
C22_SequentialMigrationFirst ==
  /\ boot.log # <<>> => boot.log[1].t = MigrationTable
  /\ OneAtATimeByPriority

\* init makes the tables one at a time in descending priority
C22_SequentialByPriority == OneAtATimeByPriority

\* b (priority 1) was made after the migration table and before a (no priority)
C22_SequentialByPriority_Witness ==
  /\ boot.pc = "idle" /\ boot.inits = 1
  /\ boot.loaded = <<"a", "b">> /\ DOMAIN boot.prio = {"b"} /\ boot.prio["b"] = 1
  /\ boot.order = <<MigrationTable, "b", "a">>
  /\ Len(boot.log) = 8

StepRank(step) == IF step = "create" THEN 1 ELSE IF step = "migrate" THEN 2 ELSE 3

\* C23: the steps of a make run in the order create-table, migrate, then;
\* the then callback runs at most once in a make, after migrate has
\* finished and only when the table holds no row, so that an init over a
\* table that holds rows does not run it.
C23_ThenOnceAfterMigrateIfEmpty ==
  /\ [](\A i, j \in 1..Len(boot.log) :
          (i < j /\ boot.log[i].t = boot.log[j].t)
            => StepRank(boot.log[i].step) < StepRank(boot.log[j].step))
  /\ [][\A t \in BootTables :
          boot'.thens[t] > boot.thens[t]
            => /\ boot.pc = "count" /\ Current = t
               /\ boot.thens[t] = 0
               /\ t \notin boot.rows]_vars

\* the second init found rows in a, seeded by the first, and ran no then for it
C23_Witness ==
  /\ boot.pc = "idle" /\ boot.inits = 2
  /\ "a" \in boot.rows /\ boot.thens["a"] = 0 /\ boot.thens["b"] = 1
  /\ \E i \in 1..Len(boot.log) : boot.log[i] = Event("a", "migrate")

\* the call the step makes fails and the step changes nothing else
FailsUnchanged ==
  /\ lastOp'.threw
  /\ UNCHANGED <<now, timeout, phase, made, cache, promises, writes, db, lastSetVer, mig, boot>>

\* C24: a call that needs a dependency that is not there fails and changes
\* no state: table.cache before make created the caches, table.client and
\* table.query of a table without ORM, and client, init, hasTable, raw,
\* createBackup and restoreBackup of an ORM built with false, which is not
\* connected and has no cached table.
C24_MissingDependencyFails ==
  /\ [](~boot.connected => ~IsConnected /\ CachedTablesOf(boot) = <<>>)
  /\ [][lastOp' # lastOp
          => /\ (lastOp'.op \in OrmCalls /\ ~boot.connected) => FailsUnchanged
             /\ (lastOp'.op = "table.cache" /\ lastOp'.t \notin made) => FailsUnchanged
             /\ (lastOp'.op \in {"table.client", "table.query"} /\ lastOp'.t \notin boot.attached)
                  => FailsUnchanged]_vars

\* table.cache of b is read, and throws, while init is creating table a
C24_Witness ==
  /\ boot.connected /\ boot.pc = "create" /\ Current = "a"
  /\ "b" \notin made
  /\ lastOp.op = "table.cache" /\ lastOp.t = "b" /\ lastOp.threw

\* restoreBackup has failed on an ORM built with false
C24_UnconnectedRestoreFails ==
  /\ ~boot.connected
  /\ lastOp.op = "restoreBackup" /\ lastOp.threw

\* C25: fetch(id, cb) invokes the producer once whether or not a live entry
\* exists, stores the new value under id with expiry now + ttl, returns it,
\* and leaves the entries of the other keys as they were; when the producer
\* throws, no entry changes.
C25_FetchOverwrites ==
  [][\A id \in Ids, cb \in Callbacks :
       CacheFetch(id, cb)
         => LET c == WhereCache("a")
            IN /\ lastOp'.calls = 1
               /\ \A k \in Ids \ {id} :
                    /\ k \in DOMAIN cache'[c] <=> k \in DOMAIN cache[c]
                    /\ k \in DOMAIN cache[c] => cache'[c][k] = cache[c][k]
               /\ IF cb = "throw"
                  THEN lastOp'.threw /\ cache' = cache
                  ELSE /\ ~lastOp'.threw
                       /\ id \in DOMAIN cache'[c]
                       /\ cache'[c][id] = [value |-> lastOp'.ret, expires |-> Plus(now, timeout)]
                       /\ promises'[lastOp'.ret].state \in {"pending", "failing"}]_vars

\* fetch has replaced a live entry of "k" while "" kept its entry
C25_Witness ==
  /\ lastOp.op = "fetch" /\ lastOp.k = "k" /\ lastOp.age = "live" /\ lastOp.calls = 1
  /\ lastOp.pre # 0 /\ lastOp.ret # 0
  /\ "" \in DOMAIN cache[WhereCache("a")]
  /\ cache[WhereCache("a")]["k"].value = lastOp.ret

\* C26: with the default TTL of Infinity a get of a key that has an entry
\* returns the stored value without a producer call, at any time, and an
\* entry only goes away by invalidate() or invalidate(key).
C26_InfinityNeverExpires ==
  [][timeout = Infinity
       => LET c == WhereCache("a")
          IN /\ \A id \in Ids, cb \in Callbacks :
                  (TableCacheGet("a", id, cb) /\ id \in DOMAIN cache[c])
                    => /\ lastOp'.calls = 0
                       /\ lastOp'.ret = cache[c][id].value
                       /\ cache' = cache
             /\ \A id \in Ids :
                  (id \in DOMAIN cache[c] /\ id \notin DOMAIN cache'[c])
                    => \E k \in Ids \cup {Undefined} : Invalidate(c, k)]_vars

\* a get at the end of the clock was served from the entry
C26_Witness ==
  /\ timeout = Infinity /\ now = MaxTime
  /\ lastOp.op = "get" /\ lastOp.k = "k" /\ lastOp.calls = 0 /\ lastOp.age = "live"
  /\ lastOp.ret = cache[WhereCache("a")]["k"].value

\* C27: an entry is valid exactly when now < expires: a get at or after the
\* instant now = expires invokes the producer, a get before it does not.
C27_ValidBeforeExpiry ==
  [][\A id \in Ids, cb \in Callbacks :
       (TableCacheGet("a", id, cb) /\ id \in DOMAIN cache[WhereCache("a")])
         => lastOp'.calls = IF now < cache[WhereCache("a")][id].expires THEN 0 ELSE 1]_vars

\* a get invokes the producer exactly when the entry's expiry is in the past
C27_ValidUntilExpiryPassed ==
  [][\A id \in Ids, cb \in Callbacks :
       (TableCacheGet("a", id, cb) /\ id \in DOMAIN cache[WhereCache("a")])
         => lastOp'.calls = IF now <= cache[WhereCache("a")][id].expires THEN 0 ELSE 1]_vars

\* a get after the expiry has invoked the producer
C27_ValidUntilExpiryPassed_Witness ==
  /\ timeout = FiniteTTL
  /\ lastOp.op = "get" /\ lastOp.age = "expired" /\ lastOp.calls = 1

Sign(n) == IF n < 0 THEN -1 ELSE IF n > 0 THEN 1 ELSE 0

\* the lexicographic comparison of two keys by their code units
LexCompare(a, b) == IF a = b THEN 0 ELSE IF LexLeq(a, b) THEN -1 ELSE 1

\* the three-rule reference: numeric difference of two pure-numeric keys,
\* difference of the prefixes of two numeric-prefixed keys, lexicographic
\* comparison of any other pair
Reference(a, b) ==
  IF KeyClass(a) = "numeric" /\ KeyClass(b) = "numeric"
  THEN Sign(DecimalValue(a) - DecimalValue(b))
  ELSE IF KeyClass(a) = "prefixed" /\ KeyClass(b) = "prefixed"
  THEN Sign(NumericPrefix(a) - NumericPrefix(b))
  ELSE LexCompare(a, b)

\* compareMigrationKeys has been called
Compared == mig.cmp.a # <<>>

\* C29: what compareMigrationKeys returns for two keys has the sign of the
\* three-rule reference, whatever the classes of the two keys.
C29_ComparatorIsReference ==
  Compared => Sign(mig.cmp.r) = Reference(mig.cmp.a, mig.cmp.b)

\* for two keys of the same digit-led class the comparator is the reference
C29_ComparatorOnOneClass ==
  (Compared /\ KeyClass(mig.cmp.a) = KeyClass(mig.cmp.b) /\ KeyClass(mig.cmp.a) # "string")
    => Sign(mig.cmp.r) = Reference(mig.cmp.a, mig.cmp.b)

C29_ComparatorOnOneClass_Witness ==
  /\ Compared
  /\ mig.cmp.a = <<"2", "_", "a">> /\ mig.cmp.b = <<"0", "1", "_", "b">>
  /\ mig.cmp.r = 1

\* the migrations the latest pass has applied
AppliedByPass == SubSeq(mig.applied, mig.appliedAt + 1, Len(mig.applied))

\* a pass has run to its upsert and no migration was added since
PassCompleted ==
  /\ mig.pc = "idle" /\ mig.result \in {"false", "version"}
  /\ Permutation(mig.sorted, mig.decl)

\* C30: over passes between which migrations are only added, no migration
\* is applied twice, and a pass skips only migrations that an earlier pass
\* applied, so that after a completed pass every declared migration has
\* been applied.
C30_AppliedOnceNoneLeftOut ==
  /\ Distinct(mig.applied)
  /\ PassCompleted => Elems(mig.decl) \subseteq Elems(mig.applied)

\* one pass applies no migration twice, and applies only declared ones
C30_OncePerPass ==
  /\ Distinct(AppliedByPass)
  /\ Elems(mig.applied) \subseteq Elems(mig.decl)

\* "2" was added after a pass that applied "1", and the next pass applied it
C30_OncePerPass_Witness ==
  /\ PassCompleted /\ mig.passes = 2
  /\ mig.decl = << <<"1">>, <<"2">> >>
  /\ mig.appliedAt = 1
  /\ mig.applied = << <<"1">>, <<"2">> >>

\* C31: the version a completed pass writes is equal to or greater than,
\* under compareMigrationKeys, the version the record held when the pass
\* began; the pass returns the new version exactly when it differs from the
\* old one and false otherwise, and a pass that returns early writes nothing.
C31_VersionNeverBackwards ==
  [][(MigrateUpsert =>
        /\ CompareMigrationKeys(mig'.record.version, mig.record.version) >= 0
        /\ (mig'.result = "version") <=> (mig'.record.version # mig.record.version)
        /\ (mig'.result = "false") <=> (mig'.record.version = mig.record.version))
      /\ (MigrateStart => mig'.record = mig.record)]_vars

\* a second pass, over a declaration to which "2" was added, has moved the
\* version from "1" to "2" and returned it
C31_Witness ==
  /\ mig.pc = "idle" /\ mig.passes = 2 /\ mig.result = "version"
  /\ mig.baseVersion = <<"1">>
  /\ mig.record = [exists |-> TRUE, version |-> <<"2">>]

\* C32: a pass of a table without migrations, or with an empty migrations
\* object, applies nothing, reads and writes no row of the migration table
\* and returns false; and no pass changes the row of another table.
C32_NoMigrationsNoRecord ==
  [][/\ (MigrateStart /\ (~mig.hasMigrations \/ mig.decl = <<>>)) =>
          /\ mig'.pc = "idle" /\ mig'.result = "false"
          /\ mig'.applied = mig.applied
          /\ mig'.read = {} /\ mig'.written = {}
          /\ MigrationRows(mig') = MigrationRows(mig)
     /\ mig'.others = mig.others
     /\ mig'.read \cup mig'.written \subseteq {MigratingTable}]_vars

\* a table without migrations has been through two passes
C32_Witness ==
  /\ ~mig.hasMigrations /\ mig.decl = <<>>
  /\ mig.pc = "idle" /\ mig.passes = 2 /\ mig.result = "false"
  /\ mig.applied = <<>> /\ mig.read = {} /\ mig.written = {}
  /\ mig.record = NoRecord /\ mig.others = OtherRecords

\* C33: on a connected ORM orm.cache.invalidate() never throws, and
\* table.cache.set(writeFn) on a made table never throws and invokes
\* writeFn, in every reachable state, also while ORM.init is making the
\* other tables.
C33_InvalidateAndSetSucceed ==
  lastOp.op \in {"ormInvalidate", "set"}
    => /\ ~lastOp.threw
       /\ lastOp.op = "set" => lastOp.calls = 1 /\ lastOp.wrote = Write(lastOp.t, TRUE)

\* the two calls succeed whenever no loaded table is left to make
C33_SucceedOnceAllMade ==
  (lastOp.op \in {"ormInvalidate", "set"} /\ lastOp.threw) => ~lastOp.ready

\* orm.cache.invalidate() has thrown after clearing the raw cache, during init
C33_SucceedOnceAllMade_Witness ==
  /\ lastOp.op = "ormInvalidate" /\ lastOp.threw /\ ~lastOp.ready
  /\ phase = "making" /\ made = {"b"}

\* C34: orm.raw(sql) leaves every cache as it is while ORM.init has not
\* completed, also after an init that failed, and empties the caches of
\* every table and the raw cache once an init has completed.
C34_RawInvalidatesIffReady ==
  [][\A sql \in Sqls :
       OrmRaw(sql) => IF phase = "ready" THEN AllEmpty' ELSE cache' = cache]_vars

\* raw on a ready ORM has emptied a table cache and the raw cache
C34_Witness ==
  /\ lastOp.op = "raw" /\ lastOp.ready /\ ~lastOp.threw
  /\ RawCache \in lastOp.had /\ WhereCache("a") \in lastOp.had
  /\ AllEmpty

\* raw after an init that failed has left a filled cache as it was
C34_WitnessFailedInit ==
  /\ lastOp.op = "raw" /\ ~lastOp.ready /\ ~lastOp.threw
  /\ boot.pc = "failed"
  /\ lastOp.had # {} /\ ~AllEmpty

\* C35: orm.cache.raw(sql) without anyDataUpdated changes nothing but the
\* entry of sql in the raw cache: the row-set and count caches of every
\* table and the raw-cache entries of the other SQL strings stay as they
\* are, on a hit and on a miss.
C35_RawChangesOnlyItsEntry ==
  [][\A s \in RawSqls :
       OrmCacheRaw(s, FALSE)
         => /\ \A c \in CacheIds \ {RawCache} : cache'[c] = cache[c]
            /\ DOMAIN cache'[RawCache] \ {s} = DOMAIN cache[RawCache] \ {s}
            /\ \A k \in DOMAIN cache[RawCache] \ {s} :
                 cache'[RawCache][k] = cache[RawCache][k]]_vars

\* on a hit orm.cache.raw(sql) changes no cache at all
C35_RawHitChangesNothing ==
  [][\A s \in RawSqls :
       (OrmCacheRaw(s, FALSE) /\ ~Miss(cache[RawCache], s, now)) => cache' = cache]_vars

\* a raw hit next to a filled table cache
C35_RawHitChangesNothing_Witness ==
  /\ lastOp.op = "raw" /\ lastOp.calls = 0 /\ ~lastOp.threw
  /\ lastOp.age = "live"
  /\ cache[WhereCache("a")] # EmptyMap /\ cache[RawCache] # EmptyMap

\* the tables whose make the running init has begun
Begun == {boot.log[i].t : i \in 1..Len(boot.log)}

\* C36: when the make of a table fails during ORM.init, init ends there:
\* no table after it in the order, and so no table of lower priority, is
\* made, nothing of the init is run again, and the failed init does not
\* make the ORM ready.
C36_FailedMakeEndsInit ==
  /\ [](boot.pc = "failed" =>
          /\ \A j \in (boot.idx + 1)..Len(boot.order) : boot.order[j] \notin Begun
          /\ \A t \in Elems(boot.order) :
               PriorityOf(boot.prio, t) < PriorityOf(boot.prio, Current) => t \notin Begun
          /\ boot.inits = 1 => phase # "ready")
  /\ [][boot.pc = "failed" => (boot' = boot /\ phase' = phase /\ made' = made)]_vars

\* the make of the second of three tables has failed in the first init
C36_Witness ==
  /\ boot.pc = "failed" /\ boot.inits = 1 /\ boot.idx = 2
  /\ Len(boot.order) = 3
  /\ PriorityOf(boot.prio, boot.order[3]) < PriorityOf(boot.prio, Current)
  /\ boot.order[1] \in Begun /\ phase = "making"

\* C37: the count cache keeps one entry per filter: a count returned by
\* table.cache.count was computed with the filter the call was given, no
\* filter and a filter string never sharing an entry.
C37_CountEntryPerFilter ==
  (lastOp.op = "count" /\ lastOp.ret # 0) => promises[lastOp.ret].arg = lastOp.arg

\* two filter strings share an entry only when they are equal
C37_FilterStringsApart ==
  (lastOp.op = "count" /\ lastOp.ret # 0 /\ lastOp.arg # Undefined
     /\ promises[lastOp.ret].arg # Undefined)
    => promises[lastOp.ret].arg = lastOp.arg

\* count("w") answered from the cache next to an entry of count("*")
C37_FilterStringsApart_Witness ==
  /\ lastOp.op = "count" /\ lastOp.arg = "w" /\ lastOp.calls = 0
  /\ promises[lastOp.ret].arg = "w"
  /\ "*" \in DOMAIN cache[CountCache("a")]
  /\ promises[cache[CountCache("a")]["*"].value].arg = "*"

\* C38: a cache entry is identified by its key alone: while the entry of id
\* is live, table.cache.get(id, readFn2) returns the value the entry holds,
\* which the readFn that created it produced, and does not invoke readFn2,
\* whatever readFn2 is.
C38_EntryIdentifiedByKey ==
  (lastOp.op = "get" /\ lastOp.age = "live")
    => /\ lastOp.calls = 0 /\ ~lastOp.threw
       /\ lastOp.ret = lastOp.pre /\ lastOp.ret # 0
       /\ promises[lastOp.ret].state # "free"

\* a get whose readFn would throw was answered from the live entry that
\* another readFn created
C38_Witness ==
  /\ lastOp.op = "get" /\ lastOp.age = "live" /\ lastOp.calls = 0
  /\ lastOp.arg = "throw"
  /\ promises[lastOp.ret].arg = "query"

\* C39: orm.restoreBackup invalidates the caches of every table and the raw
\* cache: when a restore has completed every cache is empty, so that no
\* later read is answered with a value cached before the restore.
C39_RestoreInvalidates ==
  [][(OrmRestoreBackup /\ ~lastOp'.threw) => AllEmpty']_vars

\* restoreBackup leaves every cache as it found it
C39_RestoreLeavesCaches ==
  [][OrmRestoreBackup => cache' = cache]_vars

\* a restore has completed on an ORM whose row-set cache of table a is filled
C39_RestoreLeavesCaches_Witness ==
  /\ lastOp.op = "restoreBackup" /\ ~lastOp.threw
  /\ phase = "ready" /\ boot.backup.made
  /\ "k" \in DOMAIN cache[WhereCache("a")]

====
